---- MODULE Spec2Model ----
(***************************************************************************)
(* Model of src/main.py: one invocation of process_rabbitmq_messages,      *)
(* which drains a RabbitMQ queue with basic_get, buffers one transformed   *)
(* row per message and per destination table, writes full buffers to       *)
(* BigQuery with write_to_bigquery, and acks or nacks every delivery.      *)
(*                                                                         *)
(* The queue broker and the warehouse are the environment: every call the  *)
(* code makes on them either returns or raises, and the value it returns   *)
(* is drawn from what the collaborator can answer.                         *)
(***************************************************************************)
EXTENDS Integers, Sequences, FiniteSets, TLC

\* ------------------------------------------------------------- bounds
\* Longest queue at the start of the invocation.
MaxQueue == 3
\* Largest max_messages argument tried.
MaxMessages == 3
\* Batch size of a table's buffer (100 at main.py:192, scaled down).
Threshold == 2
\* Most exceptions the collaborators raise in one invocation.
MaxFaults == 2

\* ------------------------------------------------------------- values
\* TableIds the messages of the model route to.
Tables == {"order", "refund"}
\* A payload is malformed ("bad": json.loads or the routing/transform of a
\* non-mapping raises) or well-formed, and then stands for its TableId.
Payloads == {"bad"} \cup Tables

\* Sequences over S of length 0..n.
SeqUpTo(S, n) == UNION {[1..k -> S] : k \in 0..n}

\* Elements of a sequence.
Range(s) == {s[k] : k \in 1..Len(s)}

VARIABLES
    queue,          \* broker: payloads ready for delivery, head first
    initialQueue,   \* the queue when the invocation started
    max_messages,   \* argument of process_rabbitmq_messages
    bq_client,      \* TRUE iff the module-level client was initialized
    bq_tables,      \* warehouse: tables that exist
    pc,             \* position of the driver
    fetches,        \* number of basic_get calls made
    delivered,      \* delivered[h]: payload of the delivery with tag h
    cur,            \* delivery tag being processed (method_frame.delivery_tag)
    message_buffer, \* TableId -> rows (a row is named by its delivery tag)
    bufferKeys,     \* keys of message_buffer in insertion order
    drainIdx,       \* position of the drain loop in message_buffer.items()
    results,        \* messages_processed, tables_updated, errors
    tables_list,    \* results['tables_updated'] after list(...)
    ackCalls,       \* ackCalls[h]: number of basic_ack calls with tag h
    acked,          \* tags whose basic_ack returned
    nackCalls,      \* nackCalls[h]: number of basic_nack(requeue=True) calls
    log,            \* the write_to_bigquery calls made, in order
    loopEnd,        \* why the fetch loop ended
    faults,         \* exceptions raised by the collaborators so far
    fn              \* a call of one function on its own: input and result

vars == <<queue, initialQueue, fn, max_messages, bq_client, bq_tables, pc, fetches,
          delivered, cur, message_buffer, bufferKeys, drainIdx, results,
          tables_list, ackCalls, acked, nackCalls, log, loopEnd, faults>>

Handles == 1..(MaxMessages + 1)

\* ------------------------------------------------------------- router
\* main.py:29-39 on the payloads of the model: a well-formed payload carries
\* its routing field already normalised.
get_table_from_message(message) == message

\* main.py:177-183: json.loads, routing and transform raise on a malformed
\* payload and on nothing else.
DecodeRaises(body) == body = "bad"

\* ------------------------------------------------------------- loader
\* What the warehouse can answer to one write_to_bigquery call.
\*   check:  get_table returns ("found"), raises NotFound ("notfound") or
\*           raises another exception ("raise")
\*   load:   load_table_from_file + job.result() complete ("ok"), or the
\*           submission raises ("submit_raise"), or the wait raises ("job_raise")
\*   insert: insert_rows_json raises (-1) or returns that many row errors
WarehouseAnswers(table_name, rows) ==
    LET checks == (IF table_name \in bq_tables THEN {"found"} ELSE {"notfound"})
                  \cup {"raise"}
    IN  {[check |-> c, load |-> "ok", insert |-> 0] : c \in checks \ {"found"}}
        \cup {[check |-> c, load |-> l, insert |-> 0] :
                 c \in checks \ {"found"}, l \in {"submit_raise", "job_raise"}}
        \cup {[check |-> c, load |-> "ok", insert |-> k] :
                 c \in checks \cap {"found"}, k \in (-1)..Len(rows)}

\* Exceptions an answer raises.
AnswerFaults(a) ==
    (IF a.check = "raise" THEN 1 ELSE 0)
    + (IF a.check # "found" /\ a.load # "ok" THEN 1 ELSE 0)
    + (IF a.check = "found" /\ a.insert = -1 THEN 1 ELSE 0)

\* TableExists with "NotFound" alone taken as absence.
TableExists_UnlessNotFound(a) == a.check # "notfound"

\* main.py:84-88: any exception of get_table means "table absent".
TableExists(a) == a.check = "found"

\* NoRows without the test of main.py:72.
NoRows_Never(rows) == FALSE

\* main.py:72: "not rows" of a list.
NoRows(rows) == rows = <<>>

\* LoaderExcept with the exception logged and no error returned.
LoaderExcept_Silent == <<>>

\* main.py:122-125: the handler of write_to_bigquery returns one error
\* message for the exception it caught.
LoaderExcept == <<"bq_exception">>

\* write_to_bigquery without the return of main.py:111: after a completed
\* bulk load the rows are stream-inserted as well.
write_to_bigquery_NoReturn(table_name, rows, a) ==
    LET none == [errs |-> <<>>, gets |-> 0, loads |-> 0, inserts |-> 0,
                 created |-> FALSE]
    IN  IF NoRows(rows) THEN none
        ELSE IF ~bq_client THEN [none EXCEPT !.errs = <<"client">>]
        ELSE IF ~TableExists(a)
             THEN IF a.load = "ok"
                  THEN [none EXCEPT !.gets = 1, !.loads = 1, !.inserts = 1,
                                    !.created = TRUE]
                  ELSE [none EXCEPT !.gets = 1, !.loads = 1,
                                    !.errs = LoaderExcept]
        ELSE IF a.insert = -1
             THEN [none EXCEPT !.gets = 1, !.inserts = 1,
                               !.errs = LoaderExcept]
             ELSE [none EXCEPT !.gets = 1, !.inserts = 1,
                               !.errs = [k \in 1..a.insert |-> "row_error"]]

\* main.py:70-125.  Returns the error list and the warehouse calls made.
write_to_bigquery(table_name, rows, a) ==
    LET none == [errs |-> <<>>, gets |-> 0, loads |-> 0, inserts |-> 0,
                 created |-> FALSE]
    IN  IF NoRows(rows) THEN none
        ELSE IF ~bq_client THEN [none EXCEPT !.errs = <<"client">>]
        ELSE IF ~TableExists(a)
             THEN IF a.load = "ok"
                  THEN [none EXCEPT !.gets = 1, !.loads = 1, !.created = TRUE]
                  ELSE [none EXCEPT !.gets = 1, !.loads = 1,
                                    !.errs = LoaderExcept]
        ELSE IF a.insert = -1
             THEN [none EXCEPT !.gets = 1, !.inserts = 1,
                               !.errs = LoaderExcept]
             ELSE [none EXCEPT !.gets = 1, !.inserts = 1,
                               !.errs = [k \in 1..a.insert |-> "row_error"]]

\* The answers the model lets the warehouse give: one answer when the call
\* never reaches the warehouse, and no more exceptions than MaxFaults.
Answers(table_name, rows) ==
    IF rows = <<>> \/ ~bq_client
    THEN {[check |-> "notfound", load |-> "ok", insert |-> 0]}
    ELSE {a \in WarehouseAnswers(table_name, rows) :
             faults + AnswerFaults(a) <= MaxFaults}

\* Exceptions the call really met (none when the warehouse is not reached).
CallFaults(rows, a) == IF rows = <<>> \/ ~bq_client THEN 0 ELSE AnswerFaults(a)

\* The record the model keeps of one write_to_bigquery call.
CallRecord(phase, table_name, rows, a, w) ==
    [phase |-> phase, table |-> table_name, rows |-> rows,
     existed |-> table_name \in bq_tables, client |-> bq_client,
     check |-> a.check, load |-> a.load, insert |-> a.insert,
     gets |-> w.gets, loads |-> w.loads, inserts |-> w.inserts,
     errs |-> w.errs,
     ackTried |-> {h \in Handles : ackCalls[h] > 0},
     errorsBefore |-> Len(results.errors)]

\* ------------------------------------------------------------- driver
\* No function is called on its own during an invocation of the driver.
NoCall == [op |-> "none", arg |-> <<>>, out |-> <<>>]

\* main.py:130-134
InitResults == [messages_processed |-> 0, tables_updated |-> {}, errors |-> <<>>]

Init ==
    /\ queue \in SeqUpTo(Payloads, MaxQueue)
    /\ initialQueue = queue
    /\ max_messages \in 1..MaxMessages
    /\ bq_client \in BOOLEAN
    /\ bq_tables \in SUBSET Tables
    /\ pc = "connect"
    /\ fetches = 0
    /\ delivered = <<>>
    /\ cur = 0
    /\ message_buffer = [t \in Tables |-> <<>>]
    /\ bufferKeys = <<>>
    /\ drainIdx = 1
    /\ results = InitResults
    /\ tables_list = <<>>
    /\ ackCalls = [h \in Handles |-> 0]
    /\ acked = {}
    /\ nackCalls = [h \in Handles |-> 0]
    /\ log = <<>>
    /\ loopEnd = "none"
    /\ faults = 0
    /\ fn = NoCall

\* main.py:230-233: the outer handler records one error in results; the
\* function then goes on to its return statement.
OuterExcept(r) == [r EXCEPT !.errors = Append(@, "connection_error")]

\* Abort with the handler of main.py:230 leaving the drain to run.
Abort_ThenDrain(r) ==
    /\ faults < MaxFaults
    /\ faults' = faults + 1
    /\ results' = OuterExcept(r)
    /\ loopEnd' = IF loopEnd = "none" THEN "abort" ELSE loopEnd
    /\ pc' = "drain"

\* An exception that reaches the outer handler from the state with results r.
Abort(r) ==
    /\ faults < MaxFaults
    /\ faults' = faults + 1
    /\ results' = OuterExcept(r)
    /\ loopEnd' = IF loopEnd = "none" THEN "abort" ELSE loopEnd
    /\ pc' = "return"

\* main.py:137-160: connection and channel are set up, or the attempt raises.
Connect ==
    /\ pc = "connect"
    /\ \/ /\ pc' = "fetch"
          /\ UNCHANGED <<results, faults, loopEnd>>
       \/ Abort(results)
    /\ UNCHANGED <<queue, initialQueue, fn, max_messages, bq_client, bq_tables,
                   fetches, delivered, cur, message_buffer, bufferKeys,
                   drainIdx, tables_list, ackCalls, acked, nackCalls, log>>

\* main.py:163: the loop body runs while the range is not exhausted.
LoopContinues(n, max) == n < max

\* AfterEmptyFetch with continue for the break of main.py:173.
AfterEmptyFetch_Continue == "fetch"

\* main.py:171-173: an empty answer of basic_get breaks out of the loop.
AfterEmptyFetch == "drain"

\* main.py:163-173: one basic_get.  It returns the head of the queue, or
\* nothing when the queue is empty, or it raises.
Fetch ==
    /\ pc = "fetch"
    /\ LoopContinues(fetches, max_messages)
    /\ fetches' = fetches + 1
    /\ \/ /\ queue # <<>>
          /\ cur' = fetches + 1
          /\ delivered' = Append(delivered, Head(queue))
          /\ queue' = Tail(queue)
          /\ pc' = "process"
          /\ UNCHANGED <<results, faults, loopEnd>>
       \/ /\ queue = <<>>
          /\ pc' = AfterEmptyFetch
          /\ loopEnd' = "empty"
          /\ UNCHANGED <<queue, delivered, cur, results, faults>>
       \/ /\ Abort(results)
          /\ UNCHANGED <<queue, delivered, cur>>
    /\ UNCHANGED <<initialQueue, fn, max_messages, bq_client, bq_tables,
                   message_buffer, bufferKeys, drainIdx, tables_list,
                   ackCalls, acked, nackCalls, log>>

\* main.py:163 and 216: the range is exhausted, the loop ends.
LoopExhausted ==
    /\ pc = "fetch"
    /\ ~LoopContinues(fetches, max_messages)
    /\ pc' = "drain"
    /\ loopEnd' = "max"
    /\ UNCHANGED <<queue, initialQueue, fn, max_messages, bq_client, bq_tables,
                   fetches, delivered, cur, message_buffer, bufferKeys,
                   drainIdx, results, tables_list, ackCalls, acked, nackCalls,
                   log, faults>>

\* AppendRow without the append of main.py:189.
AppendRow_Dropped(buffer, table_name, h) == buffer

\* main.py:186-189: the row of delivery h is appended to its table's buffer.
AppendRow(buffer, table_name, h) ==
    [buffer EXCEPT ![table_name] = Append(@, h)]

\* main.py:186-187: a table gets its key on its first row.
AppendKey(keys, table_name) ==
    IF table_name \in Range(keys) THEN keys ELSE Append(keys, table_name)

\* ShouldFlush with twice the batch size of main.py:192.
ShouldFlush_Late(rows) == Len(rows) >= Threshold + Threshold

\* ShouldFlush with > for the >= of main.py:192.
ShouldFlush_OffByOne(rows) == Len(rows) > Threshold

\* main.py:192: the buffer is written when it holds a full batch.
ShouldFlush(rows) == Len(rows) >= Threshold

\* AfterDecodeError with the message skipped, neither acked nor nacked.
AfterDecodeError_Skip == "fetch"

\* main.py:204: an exception of the decoding is caught by the handler.
AfterDecodeError == "handler"

\* main.py:175-192: decode, route, transform, append; then the threshold
\* test decides between the write and the ack.  A payload that does not
\* decode raises into the handler of main.py:204.
Process ==
    /\ pc = "process"
    /\ IF DecodeRaises(delivered[cur])
       THEN /\ pc' = AfterDecodeError
            /\ UNCHANGED <<message_buffer, bufferKeys>>
       ELSE LET table_name == get_table_from_message(delivered[cur])
                buffer == AppendRow(message_buffer, table_name, cur)
            IN  /\ message_buffer' = buffer
                /\ bufferKeys' = AppendKey(bufferKeys, table_name)
                /\ pc' = IF ShouldFlush(buffer[table_name]) THEN "flush" ELSE "ack"
    /\ UNCHANGED <<queue, initialQueue, fn, max_messages, bq_client, bq_tables,
                   fetches, delivered, cur, drainIdx, results, tables_list,
                   ackCalls, acked, nackCalls, log, loopEnd, faults>>

\* Account with the counting of main.py:197-198 done only for a write
\* without errors.
Account_OnlyOnSuccess(r, table_name, rows, errs) ==
    IF errs = <<>>
    THEN [r EXCEPT !.tables_updated = @ \cup {table_name},
                   !.messages_processed = @ + Len(rows)]
    ELSE [r EXCEPT !.errors = @ \o errs]

\* main.py:194-198 and 220-224: the errors of a write are added to the
\* error list, and the table and the batch size are counted in any case.
Account(r, table_name, rows, errs) ==
    [r EXCEPT !.errors = @ \o errs,
              !.tables_updated = @ \cup {table_name},
              !.messages_processed = @ + Len(rows)]

\* BufferAfterFlush without the reset of main.py:199.
BufferAfterFlush_Kept(rows) == rows

\* main.py:199: the buffer of a written table is reset.
BufferAfterFlush(rows) == <<>>

\* AfterFlush with a failed write treated as an exception of the message.
AfterFlush_RaiseOnError(errs) == IF errs # <<>> THEN "handler" ELSE "ack"

\* AfterFlush with the ack of main.py:202 skipped after a write.
AfterFlush_NoAck(errs) == "fetch"

\* main.py:193-202: after the write the driver goes on to the ack, whatever
\* the write returned.
AfterFlush(errs) == "ack"

\* main.py:193-199: the write of a full buffer.
ThresholdFlush ==
    /\ pc = "flush"
    /\ LET table_name == get_table_from_message(delivered[cur])
           rows == message_buffer[table_name]
       IN  \E a \in Answers(table_name, rows) :
             LET w == write_to_bigquery(table_name, rows, a)
             IN  /\ results' = Account(results, table_name, rows, w.errs)
                 /\ message_buffer' =
                      [message_buffer EXCEPT ![table_name] = BufferAfterFlush(rows)]
                 /\ bq_tables' = IF w.created THEN bq_tables \cup {table_name}
                                 ELSE bq_tables
                 /\ log' = Append(log, CallRecord("threshold", table_name, rows, a, w))
                 /\ faults' = faults + CallFaults(rows, a)
                 /\ pc' = AfterFlush(w.errs)
    /\ UNCHANGED <<queue, initialQueue, fn, max_messages, bq_client, fetches,
                   delivered, cur, bufferKeys, drainIdx, tables_list, ackCalls,
                   acked, nackCalls, loopEnd>>

\* main.py:202: basic_ack of the current delivery returns or raises; an
\* exception is caught by the handler of main.py:204.
Ack ==
    /\ pc = "ack"
    /\ ackCalls' = [ackCalls EXCEPT ![cur] = @ + 1]
    /\ \/ /\ acked' = acked \cup {cur}
          /\ pc' = "fetch"
          /\ UNCHANGED faults
       \/ /\ faults < MaxFaults
          /\ faults' = faults + 1
          /\ pc' = "handler"
          /\ UNCHANGED acked
    /\ UNCHANGED <<queue, initialQueue, fn, max_messages, bq_client, bq_tables,
                   fetches, delivered, cur, message_buffer, bufferKeys,
                   drainIdx, results, tables_list, nackCalls, log, loopEnd>>

\* main.py:208: the handler records one error.
HandlerError(r) == [r EXCEPT !.errors = Append(@, "processing_error")]

\* What the broker does with a delivery nacked with requeue=True: it puts
\* the message back at its place, the head of the queue ("head"), or the
\* message goes to another consumer of the queue ("elsewhere").
Requeued(q, body, where) == IF where = "head" THEN <<body>> \o q ELSE q

\* main.py:204-214: the handler of the per-message try block: one error,
\* then basic_nack(requeue=True), which returns or raises to the outer handler.
Handler ==
    /\ pc = "handler"
    /\ nackCalls' = [nackCalls EXCEPT ![cur] = @ + 1]
    /\ \/ /\ \E where \in {"head", "elsewhere"} :
                queue' = Requeued(queue, delivered[cur], where)
          /\ results' = HandlerError(results)
          /\ pc' = "fetch"
          /\ UNCHANGED <<faults, loopEnd>>
       \/ /\ Abort(HandlerError(results))
          /\ UNCHANGED queue
    /\ UNCHANGED <<initialQueue, fn, max_messages, bq_client, bq_tables, fetches,
                   delivered, cur, message_buffer, bufferKeys, drainIdx,
                   tables_list, ackCalls, acked, log>>

\* main.py:217-224: one turn of the loop over message_buffer.items(): a
\* non-empty buffer is written and counted, an empty one is passed over.
DrainStep ==
    /\ pc = "drain"
    /\ drainIdx <= Len(bufferKeys)
    /\ drainIdx' = drainIdx + 1
    /\ LET table_name == bufferKeys[drainIdx]
           rows == message_buffer[table_name]
       IN  IF rows # <<>>
           THEN \E a \in Answers(table_name, rows) :
                  LET w == write_to_bigquery(table_name, rows, a)
                  IN  /\ results' = Account(results, table_name, rows, w.errs)
                      /\ bq_tables' = IF w.created THEN bq_tables \cup {table_name}
                                      ELSE bq_tables
                      /\ log' = Append(log, CallRecord("drain", table_name, rows, a, w))
                      /\ faults' = faults + CallFaults(rows, a)
           ELSE UNCHANGED <<results, bq_tables, log, faults>>
    /\ UNCHANGED <<queue, initialQueue, fn, max_messages, bq_client, pc, fetches,
                   delivered, cur, message_buffer, bufferKeys, tables_list,
                   ackCalls, acked, nackCalls, loopEnd>>

\* main.py:227-233: connection.close() returns or raises to the outer handler.
Close ==
    /\ pc = "drain"
    /\ drainIdx > Len(bufferKeys)
    /\ \/ /\ pc' = "return"
          /\ UNCHANGED <<results, faults, loopEnd>>
       \/ Abort(results)
    /\ UNCHANGED <<queue, initialQueue, fn, max_messages, bq_client, bq_tables,
                   fetches, delivered, cur, message_buffer, bufferKeys,
                   drainIdx, tables_list, ackCalls, acked, nackCalls, log>>

\* list(s) of a Python set s: its elements, each once, in some order.
ListOfSet(s) == {l \in [1..Cardinality(s) -> s] : Range(l) = s}

\* main.py:235-237: tables_updated becomes a list and the result is returned.
Return ==
    /\ pc = "return"
    /\ tables_list' \in ListOfSet(results.tables_updated)
    /\ pc' = "done"
    /\ UNCHANGED <<queue, initialQueue, fn, max_messages, bq_client, bq_tables,
                   fetches, delivered, cur, message_buffer, bufferKeys,
                   drainIdx, results, ackCalls, acked, nackCalls, log, loopEnd,
                   faults>>

Next ==
    \/ Connect
    \/ Fetch
    \/ LoopExhausted
    \/ Process
    \/ ThresholdFlush
    \/ Ack
    \/ Handler
    \/ DrainStep
    \/ Close
    \/ Return

Spec == Init /\ [][Next]_vars

\* The driver is one sequential thread: a step that can be taken is taken.
FairSpec == Spec /\ WF_vars(Next)

\* ------------------------------------------------------------- messages
\* Longest string value of a routing field.
MaxStrLen == 2

\* A decoded JSON value: its Python type, its text (str(value) for a
\* scalar, the JSON text for a container) as a sequence of characters, and
\* for a mapping at the top level its items, a sequence of <<key, value>>.
Value(kind, text, items) == [kind |-> kind, text |-> text, items |-> items]
Scalar(kind, text) == Value(kind, text, <<>>)

\* A field that is not in the message.
Absent == Scalar("absent", <<>>)

\* A decoded message is a mapping: a sequence of <<key, value>> pairs with
\* distinct keys, in the order of the payload.
Keys(message) == {message[i][1] : i \in 1..Len(message)}
Get(message, key) ==
    message[CHOOSE i \in 1..Len(message) : message[i][1] = key][2]

\* Characters of the model: ASCII lower case, upper case, digit,
\* punctuation and space; e acute in lower case (u00e9) and upper case (u00c9),
\* capital I with dot above (u0130), its combining dot (u0307), and the
\* Arabic-Indic digit three (u0663).
LowerAscii == {"a", "b", "d", "e", "f", "i", "l", "r", "t", "u"}
UpperAscii == {"A", "T"}
AsciiDigits == {"0", "1", "7"}
Chars == {"a", "A", "7", "-", " ", "u00e9", "u00c9", "u0130", "u0663"}

\* str.isalnum() of one character (main.py:35): true of every Unicode letter
\* and digit, not only of the ASCII ones.
IsAlnum(c) ==
    c \in LowerAscii \cup UpperAscii \cup AsciiDigits
          \cup {"u00e9", "u00c9", "u0130", "u0663"}

\* str.lower() of one character (main.py:35): a sequence, because U+0130
\* lowers to "i" followed by the combining dot.
Lower(c) ==
    CASE c = "A" -> <<"a">>
      [] c = "T" -> <<"t">>
      [] c = "u00c9" -> <<"u00e9">>
      [] c = "u0130" -> <<"i", "u0307">>
      [] OTHER -> <<c>>

\* Python truthiness of a value (main.py:33).
Truthy(v) ==
    CASE v.kind = "null" -> FALSE
      [] v.kind = "bool" -> v.text = <<"T", "r", "u", "e">>
      [] v.kind = "int" -> v.text # <<"0">>
      [] v.kind = "str" -> v.text # <<>>
      [] v.kind = "list" -> v.text # <<"[", "]">>
      [] OTHER -> v.items # <<>>

\* ------------------------------------------------------------- router
RECURSIVE LowerStr(_)
\* str.lower() of a string (main.py:35).
LowerStr(str) ==
    IF str = <<>> THEN <<>> ELSE Lower(Head(str)) \o LowerStr(Tail(str))

\* main.py:35: every character that is not alphanumeric becomes an
\* underscore, then the string is lowered.
CleanTableName(str) ==
    LowerStr([i \in 1..Len(str) |-> IF IsAlnum(str[i]) THEN str[i] ELSE "_"])

\* main.py:32: the routing fields, in the order they are tried.
RoutingFields == <<"EntityType", "Table", "TableName">>

\* main.py:39
DefaultTable ==
    <<"d", "e", "f", "a", "u", "l", "t", "_", "t", "a", "b", "l", "e">>

\* main.py:33: a field routes when it is present with a truthy value.
FieldRoutes(message, field) ==
    field \in Keys(message) /\ Truthy(Get(message, field))

RECURSIVE RouteFrom(_, _)
\* main.py:32-39: the loop over the routing fields from the i-th on.
RouteFrom(message, i) ==
    IF i > Len(RoutingFields) THEN DefaultTable
    ELSE IF FieldRoutes(message, RoutingFields[i])
         THEN CleanTableName(Get(message, RoutingFields[i]).text)
         ELSE RouteFrom(message, i + 1)

RECURSIVE RouteFromPresent(_, _)
\* RouteFrom without the truthiness test of main.py:33.
RouteFromPresent(message, i) ==
    IF i > Len(RoutingFields) THEN DefaultTable
    ELSE IF RoutingFields[i] \in Keys(message)
         THEN CleanTableName(Get(message, RoutingFields[i]).text)
         ELSE RouteFromPresent(message, i + 1)

\* route taking the first routing field that is present, empty or not.
route_PresentOnly(message) == RouteFromPresent(message, 1)

\* main.py:29-39, get_table_from_message on a decoded message.
route(message) == RouteFrom(message, 1)

\* ------------------------------------------------------------- transformer
\* main.py:51 and 57: the types copied as they are.
IsScalar(v) == v.kind \in {"str", "int", "float", "bool", "null"}

\* json.dumps(value) (main.py:60, 63): a string holding the JSON text.
json_dumps(v) == Scalar("str", v.text)

\* output[key] = value on a Python dict.
Put(output, key, value) ==
    [k \in DOMAIN output \cup {key} |-> IF k = key THEN value ELSE output[k]]

\* NestedOut without the json.dumps of main.py:60.
NestedOut_Raw(v) == v

\* main.py:57-60: the value stored for a nested value.
NestedOut(v) == IF IsScalar(v) THEN v ELSE json_dumps(v)

\* main.py:56-60: the items of the mapping under key, one column each.
RECURSIVE Flatten(_, _, _)
Flatten(output, key, items) ==
    IF items = <<>> THEN output
    ELSE Flatten(Put(output, key \o "_" \o Head(items)[1], NestedOut(Head(items)[2])),
                 key, Tail(items))

\* main.py:48-63: one top-level field.
TransformField(output, key, value) ==
    IF key \in {"Table", "EntityType", "TableName"} THEN output
    ELSE IF IsScalar(value) THEN Put(output, key, value)
    ELSE IF value.kind = "dict" THEN Flatten(output, key, value.items)
    ELSE Put(output, key, json_dumps(value))

\* main.py:47-63: the loop over message.items().
RECURSIVE TransformFrom(_, _)
TransformFrom(output, message) ==
    IF message = <<>> THEN output
    ELSE TransformFrom(TransformField(output, Head(message)[1], Head(message)[2]),
                       Tail(message))

\* main.py:44
EmptyRow == [k \in {} |-> Absent]

\* main.py:41-68, with now the value of time.time().
transform_message(message, now) ==
    Put(TransformFrom(EmptyRow, message), "processing_timestamp",
        Scalar("float", now))

\* ------------------------------------------------------------- single calls
\* Strings of the model, the empty one included.
Strings == SeqUpTo(Chars, MaxStrLen)

\* Values a routing field is tried with: strings of every character class,
\* a number, a boolean, a list, and the falsy values.
RichValues ==
    {Scalar("str", str) : str \in Strings}
    \cup {Scalar("int", <<"7">>), Scalar("int", <<"0">>),
          Scalar("bool", <<"T", "r", "u", "e">>),
          Scalar("bool", <<"F", "a", "l", "s", "e">>),
          Scalar("null", <<"N", "o", "n", "e">>),
          Scalar("list", <<"[", "1", "]">>), Scalar("list", <<"[", "]">>)}

\* Values of the other routing fields of the same message.
PlainValues ==
    {Absent, Scalar("null", <<"N", "o", "n", "e">>), Scalar("str", <<>>),
     Scalar("int", <<"0">>), Scalar("bool", <<"F", "a", "l", "s", "e">>),
     Scalar("str", <<"A">>), Scalar("str", <<"u00e9", "-">>)}

RoutingFieldSet == {RoutingFields[i] : i \in 1..Len(RoutingFields)}

\* The mapping with the fields of assignment g that are not Absent, and an
\* id field after them.
AsMessage(g) ==
    LET pair(f) == IF g[f] = Absent THEN <<>> ELSE <<<<f, g[f]>>>>
    IN  pair("EntityType") \o pair("Table") \o pair("TableName")
        \o <<<<"id", Scalar("int", <<"1">>)>>>>

\* The assignment that gives routing field f the value v and the two other
\* routing fields, in their order, the values p and q.
Assignment(f, v, p, q) ==
    LET others == SelectSeq(RoutingFields, LAMBDA x : x # f)
    IN  (f :> v) @@ (others[1] :> p) @@ (others[2] :> q)

\* The driver does not run while a function is called on its own.
DriverIdle ==
    /\ queue = <<>>
    /\ initialQueue = <<>>
    /\ max_messages = 1
    /\ bq_client = TRUE
    /\ bq_tables = {}
    /\ pc = "idle"
    /\ fetches = 0
    /\ delivered = <<>>
    /\ cur = 0
    /\ message_buffer = [t \in Tables |-> <<>>]
    /\ bufferKeys = <<>>
    /\ drainIdx = 1
    /\ results = InitResults
    /\ tables_list = <<>>
    /\ ackCalls = [h \in Handles |-> 0]
    /\ acked = {}
    /\ nackCalls = [h \in Handles |-> 0]
    /\ log = <<>>
    /\ loopEnd = "none"
    /\ faults = 0

driverVars == <<queue, initialQueue, max_messages, bq_client, bq_tables, pc,
                fetches, delivered, cur, message_buffer, bufferKeys, drainIdx,
                results, tables_list, ackCalls, acked, nackCalls, log, loopEnd,
                faults>>

\* Most fields of a message given to transform_message.
MaxFields == 2
\* Most items of a nested mapping.
MaxNested == 1

\* Top-level keys: the routing fields, plain keys, and the timestamp column.
TopKeys ==
    {"EntityType", "Table", "TableName", "id", "processing",
     "processing_timestamp"}
NestedKeys == {"timestamp", "Table"}

\* Scalars of every JSON type.
ScalarValues ==
    {Scalar("str", <<"a">>), Scalar("int", <<"7">>),
     Scalar("float", <<"1", ".", "5">>),
     Scalar("bool", <<"T", "r", "u", "e">>),
     Scalar("null", <<"N", "o", "n", "e">>)}

\* A sequence [1] and a mapping {"k": {"j": 1}}, with their JSON text.
ListValue == Scalar("list", <<"[", "1", "]">>)
DeepValue ==
    Scalar("dict", <<"{", "k", ":", "{", "j", ":", "1", "}", "}">>)

NestedValues == {Scalar("int", <<"1">>), DeepValue}

\* Sequences of at most n <<key, value>> pairs with distinct keys.
RECURSIVE Mappings(_, _, _)
Mappings(keys, values, n) ==
    IF n = 0 THEN {<<>>}
    ELSE LET shorter == Mappings(keys, values, n - 1)
         IN  shorter \cup
             UNION {{Append(m, <<k, v>>) : k \in keys \ Keys(m), v \in values} :
                       m \in shorter}

\* Values of a top-level field: scalars, a sequence, and mappings of
\* scalars, sequences and deeper mappings.
TopValues ==
    ScalarValues \cup {ListValue}
    \cup {Value("dict", <<>>, items) :
             items \in Mappings(NestedKeys, NestedValues, MaxNested)}

\* Values of time.time().
Times == {<<"1", "7", ".", "2", "5">>, <<"1", "8", ".", "0">>}

\* A call of get_table_from_message is pending: one routing field has any
\* value of RichValues, the two others any value of PlainValues.  Or a call
\* of transform_message is pending, on any mapping of at most MaxFields fields.
PureInit ==
    /\ DriverIdle
    /\ \/ \E f \in RoutingFieldSet, v \in RichValues, p, q \in PlainValues :
             fn = [op |-> "route", arg |-> AsMessage(Assignment(f, v, p, q)),
                   out |-> <<>>]
       \/ \E n \in 0..MaxFields :
             \E ks \in [1..n -> TopKeys], vs \in [1..n -> TopValues] :
                /\ \A i, j \in 1..n : i # j => ks[i] # ks[j]
                /\ fn = [op |-> "transform",
                         arg |-> [i \in 1..n |-> <<ks[i], vs[i]>>],
                         out |-> <<>>]

\* get_table_from_message(message) returns.
RouteCall ==
    /\ fn.op = "route"
    /\ fn' = [fn EXCEPT !.op = "routed", !.out = route(fn.arg)]
    /\ UNCHANGED driverVars

\* transform_message(message) returns.
TransformCall ==
    /\ fn.op = "transform"
    /\ \E now \in Times :
          fn' = [fn EXCEPT !.op = "transformed",
                           !.out = transform_message(fn.arg, now)]
    /\ UNCHANGED driverVars

PureNext ==
    \/ RouteCall
    \/ TransformCall

PureSpec == PureInit /\ [][PureNext]_vars

\* ------------------------------------------------------------- single writes
\* A call of write_to_bigquery is pending, outside any invocation of the
\* driver: the client is set or missing, any tables exist, and the rows are
\* none, one, or up to a full batch.
LoaderInit ==
    /\ queue = <<>>
    /\ initialQueue = <<>>
    /\ max_messages = 1
    /\ bq_client \in BOOLEAN
    /\ bq_tables \in SUBSET Tables
    /\ pc = "idle"
    /\ fetches = 0
    /\ delivered = <<>>
    /\ cur = 0
    /\ message_buffer = [t \in Tables |-> <<>>]
    /\ bufferKeys = <<>>
    /\ drainIdx = 1
    /\ results = InitResults
    /\ tables_list = <<>>
    /\ ackCalls = [h \in Handles |-> 0]
    /\ acked = {}
    /\ nackCalls = [h \in Handles |-> 0]
    /\ log = <<>>
    /\ loopEnd = "none"
    /\ faults = 0
    /\ \E table_name \in Tables, n \in 0..Threshold :
          fn = [op |-> "write",
                arg |-> [table |-> table_name, rows |-> [i \in 1..n |-> i]],
                out |-> <<>>]

\* write_to_bigquery(table_name, rows) returns; the warehouse is ready to
\* give any of its answers.
LoaderCall ==
    /\ fn.op = "write"
    /\ \E a \in WarehouseAnswers(fn.arg.table, fn.arg.rows) :
          LET w == write_to_bigquery(fn.arg.table, fn.arg.rows, a)
          IN  /\ fn' = [fn EXCEPT !.op = "written", !.out = w.errs]
              /\ bq_tables' = IF w.created THEN bq_tables \cup {fn.arg.table}
                              ELSE bq_tables
              /\ log' = Append(log, CallRecord("direct", fn.arg.table,
                                               fn.arg.rows, a, w))
    /\ UNCHANGED <<queue, initialQueue, max_messages, bq_client, pc, fetches,
                   delivered, cur, message_buffer, bufferKeys, drainIdx,
                   results, tables_list, ackCalls, acked, nackCalls, loopEnd,
                   faults>>

\* Invocations of the driver, and single calls of write_to_bigquery.
LoaderNext ==
    \/ Next
    \/ LoaderCall

LoaderSpec == (Init \/ LoaderInit) /\ [][LoaderNext]_vars

\* ------------------------------------------------------------- properties
\* Deliveries made so far.
Fetched == 1..Len(delivered)

\* Places <<call, position>> of the log where the row of delivery h was
\* passed to write_to_bigquery.
Passed(h) ==
    UNION {{<<k, j>> : j \in {x \in 1..Len(log[k].rows) : log[k].rows[x] = h}} :
             k \in 1..Len(log)}

\* The row of delivery h sits in the buffer of table t, or was written to t.
BufferedFor(h, t) ==
    \/ h \in Range(message_buffer[t])
    \/ \E k \in 1..Len(log) : log[k].table = t /\ h \in Range(log[k].rows)

\* The write_to_bigquery calls of one phase for one table.
CallsFor(phase, t) ==
    {k \in 1..Len(log) : log[k].phase = phase /\ log[k].table = t}

\* Deliveries whose row has been appended: the well-formed ones the driver
\* is past the append of.
Appended ==
    {h \in Fetched : ~DecodeRaises(delivered[h]) /\ (h = cur => pc # "process")}

\* The fetch loop ended by an empty queue or by max_messages, and the
\* function returned.
NormalEnd == pc = "done" /\ loopEnd \in {"empty", "max"}

\* The trigger of a threshold write: the delivery whose append filled the buffer.
Trigger(c) == c.rows[Len(c.rows)]

\* C1 as stated: at every write_to_bigquery call, basic_ack has already been
\* called for every row of the batch, the row that filled the buffer included.
C1_AckBeforeEveryFlush ==
    \A k \in 1..Len(log) : Range(log[k].rows) \subseteq log[k].ackTried

\* C1 amended: basic_ack of a delivery is the first queue call after its row
\* is appended.  For a row that leaves the buffer below the threshold it
\* comes before the write that holds the row; for the row that fills the
\* buffer the write comes first and basic_ack follows it at once.
C1_AckOrder ==
    /\ \A k \in 1..Len(log) : \A j \in 1..Len(log[k].rows) :
          (log[k].rows[j] \in log[k].ackTried)
             <=> ~(log[k].phase = "threshold" /\ j = Len(log[k].rows))
    /\ \A k \in 1..Len(log) : \A h \in Range(log[k].rows) :
          ackCalls[h] > 0 \/ (h = cur /\ pc = "ack" /\ k = Len(log))
    /\ \A t \in Tables : \A h \in Range(message_buffer[t]) :
          ackCalls[h] > 0 \/ (h = cur /\ pc \in {"flush", "ack"})
    /\ pc \in {"flush", "ack"} =>
          /\ ackCalls[cur] = 0 /\ nackCalls[cur] = 0
          /\ cur \in Appended

\* C1 witness: a threshold write was made before the ack of the row that
\* filled the buffer and after the ack of the row before it, and both are acked.
C1_Witness ==
    \E k \in 1..Len(log) :
        /\ log[k].phase = "threshold"
        /\ Trigger(log[k]) \notin log[k].ackTried
        /\ log[k].rows[1] \in log[k].ackTried
        /\ Range(log[k].rows) \subseteq acked

\* C2: a delivery on which basic_ack was called is well-formed and its row
\* was appended before: it is in the buffer of its table or in a write to it.
C2_AckedWasBuffered ==
    \A h \in Handles :
        ackCalls[h] > 0 =>
            /\ h \in Appended
            /\ BufferedFor(h, get_table_from_message(delivered[h]))

\* C2 witness: an acked delivery whose row waits in the buffer.
C2_Witness ==
    \E h \in acked : h \in Range(message_buffer[get_table_from_message(delivered[h])])

\* The queue held exactly one malformed payload at the start.
OneMalformed(q) == Cardinality({k \in 1..Len(q) : DecodeRaises(q[k])}) = 1

\* No write_to_bigquery call returned an error.
NoLoaderErrors == \A k \in 1..Len(log) : log[k].errs = <<>>

\* Rows passed to write_to_bigquery so far, over all calls.
RowsPassed == UNION {Passed(h) : h \in Handles}

\* C3 as stated: with N <= max_messages messages queued, exactly one of them
\* malformed, and no failure of the queue or the warehouse, the invocation
\* ends with N-1 rows written and counted, one error, one nack and N-1 acks.
C3_Isolation ==
    (/\ pc = "done"
     /\ OneMalformed(initialQueue)
     /\ Len(initialQueue) <= max_messages
     /\ faults = 0
     /\ NoLoaderErrors)
    => LET N == Len(initialQueue)
       IN  /\ results.messages_processed = N - 1
           /\ Cardinality(RowsPassed) = N - 1
           /\ Len(results.errors) = 1
           /\ Cardinality({h \in Fetched : nackCalls[h] > 0}) = 1
           /\ Cardinality(acked) = N - 1

\* Rows appended so far to the buffer of table t.
AppendedTo(t) == {h \in Appended : get_table_from_message(delivered[h]) = t}

\* C4: a threshold write is made exactly when a buffer reaches Threshold rows:
\* each such write gets exactly Threshold rows, the rows appended to a table
\* are Threshold per threshold write plus the rows still buffered, a buffer
\* holds fewer than Threshold rows except right before its write, the buffer
\* is empty right after the write whatever it returned, and no other write
\* is made before the fetch loop has ended.
C4_Batching ==
    /\ \A k \in 1..Len(log) :
          /\ log[k].phase = "threshold" => Len(log[k].rows) = Threshold
          /\ log[k].phase # "threshold" => loopEnd \in {"empty", "max"}
    /\ \A t \in Tables :
          /\ Cardinality(CallsFor("threshold", t)) * Threshold
                + Len(message_buffer[t]) = Cardinality(AppendedTo(t))
          /\ \/ Len(message_buffer[t]) < Threshold
             \/ /\ pc = "flush"
                /\ t = get_table_from_message(delivered[cur])
                /\ Len(message_buffer[t]) = Threshold
    /\ (/\ pc = "ack"
        /\ log # <<>>
        /\ log[Len(log)].phase = "threshold"
        /\ Trigger(log[Len(log)]) = cur)
       => message_buffer[log[Len(log)].table] = <<>>

\* C4 witness: right after a threshold write that returned errors, with the
\* buffer of its table empty, while another table holds a row unwritten.
C4_Witness ==
    /\ pc = "ack"
    /\ log # <<>>
    /\ log[Len(log)].phase = "threshold"
    /\ log[Len(log)].errs # <<>>
    /\ Trigger(log[Len(log)]) = cur
    /\ message_buffer[log[Len(log)].table] = <<>>
    /\ \E t \in Tables : message_buffer[t] # <<>> /\ CallsFor("threshold", t) = {}

\* C5 as stated: a write for a table that does not exist bulk-loads once and
\* never stream-inserts, and a write for a table that exists stream-inserts
\* once and never bulk-loads.
C5_PathByExistence ==
    \A k \in 1..Len(log) :
        log[k].rows # <<>> =>
            /\ ~log[k].existed => log[k].loads = 1 /\ log[k].inserts = 0
            /\ log[k].existed => log[k].inserts = 1 /\ log[k].loads = 0

\* C5 amended: with the client initialized, a write whose existence check
\* does not return (table not found, or the check raises) bulk-loads once and
\* never stream-inserts, and a write whose check returns stream-inserts once
\* and never bulk-loads; a table that does not exist always takes the first
\* path.  Without a client no warehouse call is made.  No write does both or
\* repeats a call.
C5_PathByCheck ==
    \A k \in 1..Len(log) :
        /\ log[k].gets <= 1 /\ log[k].loads + log[k].inserts <= 1
        /\ log[k].rows # <<>>
        /\ ~log[k].client =>
              log[k].gets = 0 /\ log[k].loads = 0 /\ log[k].inserts = 0
        /\ log[k].client =>
              /\ log[k].gets = 1
              /\ log[k].check # "found" => log[k].loads = 1 /\ log[k].inserts = 0
              /\ log[k].check = "found" => log[k].inserts = 1 /\ log[k].loads = 0
              /\ ~log[k].existed => log[k].loads = 1 /\ log[k].inserts = 0
              /\ log[k].check = "found" => log[k].existed

\* C5 witness: one invocation bulk-loaded a table that did not exist, without
\* errors, and stream-inserted into a table that existed.
C5_Witness ==
    \E j, k \in 1..Len(log) :
        /\ ~log[j].existed /\ log[j].loads = 1 /\ log[j].inserts = 0
        /\ log[j].errs = <<>>
        /\ log[k].existed /\ log[k].inserts = 1 /\ log[k].loads = 0

\* C6: no row is passed to write_to_bigquery twice and no write gets an empty
\* batch; a drain write is made only after the fetch loop ended, at most once
\* per table and with the whole buffer of the table; and at the normal end
\* every table whose buffer is non-empty has had exactly one drain write, the
\* others none, and the row of every acked delivery was passed exactly once.
C6_DrainFlush ==
    /\ \A h \in Handles : Cardinality(Passed(h)) <= 1
    /\ \A k \in 1..Len(log) :
          /\ log[k].rows # <<>>
          /\ log[k].phase = "drain" =>
                /\ loopEnd \in {"empty", "max"}
                /\ log[k].rows = message_buffer[log[k].table]
    /\ \A t \in Tables : Cardinality(CallsFor("drain", t)) <= 1
    /\ NormalEnd =>
          /\ \A t \in Tables :
                Cardinality(CallsFor("drain", t))
                   = IF message_buffer[t] # <<>> THEN 1 ELSE 0
          /\ \A h \in acked : Cardinality(Passed(h)) = 1

\* C6 witness: a normal end after a threshold write of one table, whose
\* emptied buffer the drain passed over, and a drain write of another table.
C6_Witness ==
    /\ NormalEnd
    /\ \E j, k \in 1..Len(log) :
          /\ log[j].phase = "threshold"
          /\ log[k].phase = "drain"
          /\ message_buffer[log[j].table] = <<>>
          /\ log[j].table \in Range(bufferKeys)
    /\ acked # {}

\* Deliveries on which basic_ack was called.
AckCalled == {h \in Fetched : ackCalls[h] > 0}

\* C7: messages_processed is always the number of rows passed to
\* write_to_bigquery and tables_updated the tables of the calls, whether or
\* not a call returned errors; at the normal end these are the number of
\* decoded deliveries, which are the deliveries basic_ack was called on, and
\* the set of their TableIds, and the returned list holds each table once.
C7_Accounting ==
    /\ results.messages_processed = Cardinality(RowsPassed)
    /\ results.tables_updated = {log[k].table : k \in 1..Len(log)}
    /\ NormalEnd =>
          /\ Appended = AckCalled
          /\ results.messages_processed = Cardinality(Appended)
          /\ results.tables_updated =
                {get_table_from_message(delivered[h]) : h \in Appended}
          /\ Range(tables_list) = results.tables_updated
          /\ Len(tables_list) = Cardinality(results.tables_updated)

\* C7 witness: the scenario of the specification with batch size 2: queue
\* Order, Order, Refund; one write of 2 rows to order after message 2, here
\* returning errors, one drain write of 1 row to refund; 3 processed, both
\* tables reported.
C7_Witness ==
    /\ NormalEnd
    /\ initialQueue = <<"order", "order", "refund">>
    /\ Len(log) = 2
    /\ log[1].phase = "threshold" /\ log[1].table = "order"
    /\ log[1].rows = <<1, 2>> /\ log[1].errs # <<>>
    /\ log[2].phase = "drain" /\ log[2].table = "refund" /\ log[2].rows = <<3>>
    /\ results.messages_processed = 3
    /\ results.tables_updated = {"order", "refund"}
    /\ Len(tables_list) = 2

\* C8, in every state: a delivery is nacked only when it did not decode or
\* its own basic_ack raised, never for a failed write; the rows of a failed
\* write are in no later write and not in the buffer again; and basic_ack is
\* called on the delivery that triggered a threshold write, failed or not.
C8_State ==
    /\ \A h \in Handles :
          nackCalls[h] > 0 =>
              \/ DecodeRaises(delivered[h])
              \/ ackCalls[h] > 0 /\ h \notin acked
    /\ \A j \in 1..Len(log) :
          log[j].errs # <<>> =>
              /\ \A k \in 1..Len(log) :
                    k # j => Range(log[j].rows) \cap Range(log[k].rows) = {}
              /\ log[j].phase = "threshold" =>
                    /\ Range(log[j].rows) \cap Range(message_buffer[log[j].table]) = {}
                    /\ \/ ackCalls[Trigger(log[j])] > 0
                       \/ pc = "ack" /\ cur = Trigger(log[j])

\* C8, in every step: acked deliveries stay acked; a write that returns
\* errors appends exactly its errors to the error list, nacks and un-acks
\* nothing, leaves the queue alone, and the driver goes on: to the ack of the
\* triggering delivery with the table's buffer emptied, or to the next table
\* of the drain.
C8_Step ==
    /\ acked \subseteq acked'
    /\ (Len(log') = Len(log) + 1 /\ log'[Len(log')].errs # <<>>) =>
          LET c == log'[Len(log')]
          IN  /\ results'.errors = results.errors \o c.errs
              /\ nackCalls' = nackCalls /\ acked' = acked /\ queue' = queue
              /\ c.phase = "threshold" =>
                    /\ pc' = "ack" /\ cur' = cur /\ Trigger(c) = cur
                    /\ message_buffer'[c.table] = <<>>
              /\ c.phase = "drain" =>
                    /\ pc' = "drain" /\ drainIdx' = drainIdx + 1

\* C8: failures of write_to_bigquery are isolated: their errors are
\* accumulated, the driver continues, no delivery is nacked or un-acked for
\* them, the triggering delivery is still acked, and the failed batch is
\* dropped and never passed again.
C8_LoaderFailuresIsolated == [](C8_State) /\ [][C8_Step]_vars

\* C8 witness: a threshold write failed, its trigger was acked, the driver
\* fetched a further message and later made the drain write of another table.
C8_Witness ==
    /\ NormalEnd
    /\ \E j, k \in 1..Len(log) :
          /\ j < k
          /\ log[j].phase = "threshold" /\ log[j].errs # <<>>
          /\ Range(log[j].rows) \subseteq acked
          /\ log[k].phase = "drain" /\ log[k].table # log[j].table
          /\ \E h \in Range(log[k].rows) : h > Trigger(log[j])

\* C9, in every state: at most max_messages basic_get calls are made; after
\* an empty answer no message is fetched or processed again, and every
\* earlier fetch returned a message; a loop ended by the count made exactly
\* max_messages calls; the drain starts only after the loop ended that way.
C9_State ==
    /\ fetches <= max_messages
    /\ loopEnd = "empty" =>
          /\ pc \in {"drain", "return", "done"}
          /\ Len(delivered) = fetches - 1
    /\ loopEnd = "max" =>
          /\ pc \in {"drain", "return", "done"}
          /\ fetches = max_messages /\ Len(delivered) = fetches
    /\ loopEnd = "abort" => pc \in {"return", "done"}
    /\ pc = "drain" => loopEnd \in {"empty", "max"}

\* C9: every invocation ends and returns its result, after at most
\* max_messages fetches, the loop stopping at the first empty answer or at
\* the count, redelivery of a nacked message included.
C9_Termination == <>(pc = "done") /\ [](C9_State)

\* C9 witness: an invocation that ended by the count after a malformed
\* message was nacked, requeued and delivered again.
C9_Witness ==
    /\ pc = "done"
    /\ loopEnd = "max"
    /\ Len(delivered) > Len(initialQueue)
    /\ \E h \in Fetched :
          /\ h + 1 \in Fetched
          /\ DecodeRaises(delivered[h]) /\ DecodeRaises(delivered[h + 1])
          /\ nackCalls[h] = 1 /\ nackCalls[h + 1] = 1

\* C10 as stated: on every delivery tag at most one call is made, basic_ack
\* or basic_nack, and at the normal end exactly one on every fetched tag.
C10_HandleUsedOnce ==
    /\ \A h \in Handles : ackCalls[h] + nackCalls[h] <= 1
    /\ NormalEnd => \A h \in Fetched : ackCalls[h] + nackCalls[h] = 1

\* The characters a-z, 0-9 and underscore.
IdentChars ==
    {"a", "b", "c", "d", "e", "f", "g", "h", "i", "j", "k", "l", "m", "n", "o",
     "p", "q", "r", "s", "t", "u", "v", "w", "x", "y", "z", "0", "1", "2", "3",
     "4", "5", "6", "7", "8", "9", "_"}

\* The falsy values of the model: null, the empty string, 0, false and
\* the empty list.
FalsyValues ==
    {Scalar("null", <<"N", "o", "n", "e">>), Scalar("str", <<>>),
     Scalar("int", <<"0">>), Scalar("bool", <<"F", "a", "l", "s", "e">>),
     Scalar("list", <<"[", "]">>)}

\* Field f of message m is present with a non-empty value.
Populated(m, f) == f \in Keys(m) /\ Get(m, f) \notin FalsyValues

\* C11 as stated: the TableId of a message with a populated routing field
\* holds only characters of a-z, 0-9 and underscore.
C11_IdentifierOnly ==
    (/\ fn.op = "routed"
     /\ \E f \in RoutingFieldSet : Populated(fn.arg, f))
    => Range(fn.out) \subseteq IdentChars

\* C12: the TableId is the cleaned text of EntityType when that is
\* populated, else of Table when that is populated, else of TableName when
\* that is populated, whatever the later fields hold, and default_table when
\* none of the three is populated.
C12_PriorityAndDefault ==
    fn.op = "routed" =>
        LET m == fn.arg
            text(f) == CleanTableName(Get(m, f).text)
        IN  /\ Populated(m, "EntityType") => fn.out = text("EntityType")
            /\ (~Populated(m, "EntityType") /\ Populated(m, "Table"))
                  => fn.out = text("Table")
            /\ (/\ ~Populated(m, "EntityType") /\ ~Populated(m, "Table")
                /\ Populated(m, "TableName"))
                  => fn.out = text("TableName")
            /\ (\A f \in RoutingFieldSet : ~Populated(m, f))
                  => fn.out = DefaultTable

\* C12 witness: EntityType is present but 0, Table and TableName are both
\* populated, and the TableId is the one of Table.
C12_Witness ==
    /\ fn.op = "routed"
    /\ Keys(fn.arg) = {"EntityType", "Table", "TableName", "id"}
    /\ Get(fn.arg, "EntityType") = Scalar("int", <<"0">>)
    /\ Get(fn.arg, "Table") = Scalar("str", <<"A">>)
    /\ Get(fn.arg, "TableName") = Scalar("str", <<"u00e9", "-">>)
    /\ fn.out = <<"a">>

\* C13: every value of the row transform_message returns is a string, a
\* number, a boolean or null and holds no items; the row has the column
\* processing_timestamp and it holds the float of time.time(), whatever the
\* message held under that name; and no column is named EntityType, Table
\* or TableName.
C13_FlatRow ==
    fn.op = "transformed" =>
        /\ \A k \in DOMAIN fn.out :
              /\ fn.out[k].kind \in {"str", "int", "float", "bool", "null"}
              /\ fn.out[k].items = <<>>
        /\ "processing_timestamp" \in DOMAIN fn.out
        /\ fn.out["processing_timestamp"].kind = "float"
        /\ fn.out["processing_timestamp"].text \in Times
        /\ DOMAIN fn.out \cap {"EntityType", "Table", "TableName"} = {}

\* C13 witness: the message holds a mapping under processing whose item
\* timestamp is a mapping, and a string under processing_timestamp; the row
\* holds the time alone.
C13_Witness ==
    /\ fn.op = "transformed"
    /\ fn.arg = <<<<"processing", Value("dict", <<>>, <<<<"timestamp", DeepValue>>>>)>>,
                  <<"processing_timestamp", Scalar("str", <<"a">>)>>>>
    /\ DOMAIN fn.out = {"processing_timestamp"}
    /\ fn.out["processing_timestamp"].kind = "float"

\* C13 second case reached: a nested mapping under a routing-field name
\* becomes a string column.
C13_NestedSerialized ==
    /\ fn.op = "transformed"
    /\ "id_Table" \in DOMAIN fn.out
    /\ fn.out["id_Table"] = Scalar("str", DeepValue.text)

\* A recorded call in which load_table_from_file, job.result() or
\* insert_rows_json raised.
Raised(c) ==
    /\ c.client
    /\ \/ c.check # "found" /\ c.load \in {"submit_raise", "job_raise"}
       \/ c.check = "found" /\ c.insert = -1

\* C14, in every state: a write in which the bulk-load submission, the wait
\* for the job, or the stream insert raised returned exactly one error, and
\* made no insert after a failed load.
C14_State ==
    \A i \in 1..Len(log) :
        Raised(log[i]) =>
            /\ log[i].errs = <<"bq_exception">>
            /\ log[i].check # "found" => log[i].inserts = 0

\* C14, in every step: the one error of such a write is added to the result,
\* the loop is not ended by it, and the driver goes on: to the ack and the
\* next fetch after a threshold write, to the next table in the drain.
C14_Step ==
    (Len(log') = Len(log) + 1 /\ Raised(log'[Len(log')])) =>
        LET c == log'[Len(log')]
        IN  /\ results'.errors = Append(results.errors, "bq_exception")
            /\ loopEnd' = loopEnd
            /\ c.phase = "threshold" => pc' = "ack" /\ cur' = cur
            /\ c.phase = "drain" => pc' = "drain" /\ drainIdx' = drainIdx + 1

\* C14: write_to_bigquery never raises: an exception of the bulk load or of
\* the stream insert becomes a returned list of exactly one error, and the
\* drive loop goes on.
C14_LoaderNeverRaises == [](C14_State) /\ [][C14_Step]_vars

\* C14 witness: the wait for the load job raised in a threshold write, one
\* error was returned, and the driver fetched a further message afterwards.
C14_Witness ==
    \E j \in 1..Len(log) :
        /\ log[j].phase = "threshold"
        /\ log[j].load = "job_raise"
        /\ Len(log[j].errs) = 1
        /\ \E h \in 1..Len(delivered) : h > Trigger(log[j])

\* C14, the drain: the stream insert raised in a drain write and the write of
\* the next table was made.
C14_DrainGoesOn ==
    \E j, k \in 1..Len(log) :
        /\ j < k
        /\ log[j].phase = "drain" /\ log[j].insert = -1
        /\ log[k].phase = "drain"

\* C14, the submission: load_table_from_file raised and one error came back.
C14_SubmitRaised ==
    \E j \in 1..Len(log) : log[j].load = "submit_raise" /\ Len(log[j].errs) = 1

\* A recorded call that reached the warehouse.
WarehouseCalls(c) == c.gets + c.loads + c.inserts

\* C15, in every state: a write with no rows returned no error and made no
\* warehouse call, with or without a client; a write with rows and no client
\* returned the one fixed error and made no warehouse call.
C15_State ==
    \A i \in 1..Len(log) :
        /\ log[i].rows = <<>> =>
              log[i].errs = <<>> /\ WarehouseCalls(log[i]) = 0
        /\ (log[i].rows # <<>> /\ ~log[i].client) =>
              log[i].errs = <<"client">> /\ WarehouseCalls(log[i]) = 0

\* C15, in every step: the client is never set during an invocation, and a
\* write without a client does not raise: the driver goes on as after any
\* write and no table appears.
C15_Step ==
    /\ bq_client' = bq_client
    /\ (Len(log') = Len(log) + 1 /\ ~log'[Len(log')].client) =>
          /\ bq_tables' = bq_tables
          /\ loopEnd' = loopEnd
          /\ log'[Len(log')].phase = "threshold" => pc' = "ack"
          /\ log'[Len(log')].phase = "drain" => pc' = "drain"

\* C15: the no-op on an empty row list and the fixed error for a missing
\* client, on every write.
C15_NoOpAndClientError == [](C15_State) /\ [][C15_Step]_vars

\* C15 witness: in one invocation without a client, a threshold write and a
\* later drain write each returned the fixed error.
C15_Witness ==
    /\ ~bq_client
    /\ \E j, k \in 1..Len(log) :
          /\ log[j].phase = "threshold" /\ log[j].errs = <<"client">>
          /\ log[k].phase = "drain" /\ log[k].errs = <<"client">>

\* C15, no rows: a write of an empty list without a client returned no error.
C15_EmptyWithoutClient ==
    /\ ~bq_client
    /\ fn.op = "written"
    /\ fn.arg.rows = <<>>
    /\ fn.out = <<>>

\* How many times e occurs in the sequence s.
Count(s, e) == Cardinality({i \in 1..Len(s) : s[i] = e})

\* C16, in every state after connecting, a fetch or a nack raised: the
\* function is returning or has returned; the outer handler recorded exactly
\* one error, the last of the list; every write made was a threshold write,
\* and messages_processed and tables_updated count those writes alone.
C16_State ==
    loopEnd = "abort" =>
        /\ pc \in {"return", "done"}
        /\ Count(results.errors, "connection_error") = 1
        /\ results.errors[Len(results.errors)] = "connection_error"
        /\ \A k \in 1..Len(log) : log[k].phase = "threshold"
        /\ results.messages_processed = Cardinality(RowsPassed)
        /\ results.tables_updated = {log[k].table : k \in 1..Len(log)}
        /\ pc = "done" => Range(tables_list) = results.tables_updated

\* C16, in every step: the abort starts at a queue call that raised, in the
\* connection setup, a basic_get or the basic_nack of the handler, never at
\* the decoding of a message or at a write; and once it started nothing is
\* fetched, settled, written or recorded any more.
C16_Step ==
    /\ (loopEnd = "none" /\ loopEnd' = "abort") =>
          /\ pc \in {"connect", "fetch", "handler"}
          /\ faults' = faults + 1
          /\ log' = log
          /\ Count(results'.errors, "connection_error") = 1
    /\ (pc \in {"process", "flush", "ack"}) => loopEnd' = loopEnd
    /\ loopEnd = "abort" =>
          /\ fetches' = fetches /\ delivered' = delivered /\ queue' = queue
          /\ log' = log /\ results' = results
          /\ ackCalls' = ackCalls /\ nackCalls' = nackCalls
          /\ message_buffer' = message_buffer /\ bq_tables' = bq_tables

\* C16: a failure of the queue transport aborts the rest of the invocation.
C16_TransportFailureAborts == [](C16_State) /\ [][C16_Step]_vars

\* C16 witness: the invocation was aborted after one threshold write and
\* returned, with a buffered row left unwritten.
C16_Witness ==
    /\ loopEnd = "abort"
    /\ pc = "done"
    /\ Len(log) = 1
    /\ results.messages_processed = Threshold
    /\ \E t \in Tables : message_buffer[t] # <<>>

\* C16, the three calls: the abort started at the connection setup, at a
\* basic_get, at a basic_nack.
C16_AtConnect == loopEnd = "abort" /\ fetches = 0
C16_AtFetch ==
    loopEnd = "abort" /\ fetches > Len(delivered) /\ Len(delivered) > 0
C16_AtNack ==
    loopEnd = "abort" /\ cur > 0 /\ nackCalls[cur] = 1 /\ fetches = Len(delivered)

\* Delivery h is settled: basic_ack returned for it, or basic_nack was called
\* and did not raise.
Settled(h) ==
    \/ h \in acked
    \/ nackCalls[h] > 0 /\ ~(h = cur /\ loopEnd = "abort")

\* The deliveries not settled.
Unsettled == {h \in 1..Len(delivered) : ~Settled(h)}

\* C17, in every state: when basic_get is about to be called every delivery
\* of the invocation is settled; at any time the only delivery that can be
\* unsettled is the current one.
C17_State ==
    /\ pc = "fetch" => Unsettled = {}
    /\ Unsettled \subseteq {cur}

\* C17, in every step: a step makes at most one write_to_bigquery call, which
\* has returned when the step ends; the step of a basic_get makes none, and
\* the step of a write fetches nothing.
C17_Step ==
    /\ Len(log') <= Len(log) + 1
    /\ fetches' # fetches => log' = log
    /\ log' # log => fetches' = fetches /\ delivered' = delivered

\* C17: messages are handled strictly one at a time.
C17_OneAtATime == [](C17_State) /\ [][C17_Step]_vars

\* C17 witness: the third message has just been fetched; the first was
\* acked, the second was nacked after the write it triggered, and no
\* delivery but the third is unsettled.
C17_Witness ==
    /\ pc = "process"
    /\ cur = 3
    /\ 1 \in acked
    /\ nackCalls[2] = 1
    /\ Len(log) = 1
    /\ Unsettled = {3}

\* C18: whenever basic_get is about to be called, and from the start of the
\* drain on, every buffer holds fewer than Threshold rows; a threshold write
\* passes exactly Threshold rows, a drain write between 1 and Threshold - 1,
\* so no write_to_bigquery call gets more than Threshold rows.
C18_BuffersBelowThreshold ==
    /\ pc \in {"fetch", "drain"} =>
          \A t \in Tables : Len(message_buffer[t]) < Threshold
    /\ \A k \in 1..Len(log) :
          /\ Len(log[k].rows) <= Threshold
          /\ log[k].phase = "threshold" => Len(log[k].rows) = Threshold
          /\ log[k].phase = "drain" =>
                Len(log[k].rows) >= 1 /\ Len(log[k].rows) < Threshold

\* C18 witness: a threshold write of Threshold rows was followed by further
\* fetches and by a drain write of Threshold - 1 rows.
C18_Witness ==
    /\ pc = "done"
    /\ \E j, k \in 1..Len(log) :
          /\ j < k
          /\ log[j].phase = "threshold" /\ Len(log[j].rows) = Threshold
          /\ log[k].phase = "drain" /\ Len(log[k].rows) = Threshold - 1

\* Delivery h has a row in a buffer or in a write_to_bigquery call.
Contributes(h) == \E t \in Tables : BufferedFor(h, t)

\* C19 as stated: a delivery basic_nack was called for has no row in any
\* buffer and in no write_to_bigquery call, whatever failed in the handler,
\* a failure of basic_ack after the append included.
C19_NackedContributesNothing ==
    \A h \in Handles : nackCalls[h] > 0 => ~Contributes(h)

\* C19 for the deliveries that failed before basic_ack was called: their
\* rows are nowhere.
C19_DecodeFailureContributesNothing ==
    \A h \in Handles : (nackCalls[h] > 0 /\ ackCalls[h] = 0) => ~Contributes(h)

\* C19, the failing case reached: basic_ack raised for a delivery whose row
\* was written, the delivery was nacked and requeued, and the function
\* returned.
C19_RequeuedAndWritten ==
    /\ pc = "done"
    /\ \E h \in Handles :
          /\ nackCalls[h] > 0
          /\ Passed(h) # {}
          /\ delivered[h] \in Range(queue)

\* C20: a write in which get_table raised, with NotFound or with any other
\* exception, went on to the bulk load and made no stream insert; the
\* exception of get_table is not among the errors: the call returned none
\* when the load completed, and the one error of the load otherwise.
C20_CheckFailureMeansAbsent ==
    \A k \in 1..Len(log) :
        (log[k].client /\ log[k].check \in {"raise", "notfound"}) =>
            /\ log[k].gets = 1
            /\ log[k].loads = 1
            /\ log[k].inserts = 0
            /\ log[k].errs = IF log[k].load = "ok" THEN <<>> ELSE <<"bq_exception">>

\* C20 witness: get_table raised for a table that exists; the rows were bulk
\* loaded and no error was returned.
C20_Witness ==
    \E k \in 1..Len(log) :
        /\ log[k].check = "raise"
        /\ log[k].existed
        /\ log[k].loads = 1
        /\ log[k].inserts = 0
        /\ log[k].errs = <<>>
====
